---- MODULE Spec2Model ----
(***************************************************************************)
(* Homework1/preprocess.py: the character-to-token alignment, the two      *)
(* sample builders (sequence tagging, sequence to sequence) and main's     *)
(* pass over the train, valid and test splits.                             *)
(*                                                                         *)
(* Python values are modelled as follows.  A str is a sequence of          *)
(* one-character strings.  A dict is a function whose DOMAIN is the set of *)
(* keys it holds, so `k in d` is k \in DOMAIN d and d[k] on a missing key  *)
(* is a KeyError.  A call that may raise returns [err, val]: err is "none" *)
(* and val the returned value, or err names the exception and val is <<>>. *)
(***************************************************************************)
EXTENDS Integers, Sequences, FiniteSets, TLC

\* ------------------------------------------------------------------ bounds
\* Longest text (in characters) of an enumerated record.
MaxLen == 3
\* Most sentence bounds of an enumerated record.
MaxBounds == 2
\* Most records of a list handed to a builder on its own.
MaxRecords == 2
\* Most lines of a split's .jsonl file in a run of main.
MaxLines == 2

\* --------------------------------------------------------- program constants
max_text_len == 300
max_summary_len == 80

\* -------------------------------------------------------------- Python core
Min(a, b) == IF a < b THEN a ELSE b
Max(a, b) == IF a > b THEN a ELSE b

Ok(v) == [err |-> "none", val |-> v]
Raise(e) == [err |-> e, val |-> <<>>]

\* Where a slice index i lands in a sequence of length n (Python's slice.indices).
SliceIndex(i, n) == IF i < 0 THEN Max(i + n, 0) ELSE Min(i, n)

\* seq[lo:hi]
Slice(seq, lo, hi) ==
    SubSeq(seq, SliceIndex(lo, Len(seq)) + 1, SliceIndex(hi, Len(seq)))

\* seq[k] is defined for -len <= k < len; anything else is an IndexError.
ValidIndex(k, n) == -n <= k /\ k < n

\* seq[k] for a valid k: a negative k counts from the end.
Subscript(seq, k) == IF k < 0 THEN seq[Len(seq) + k + 1] ELSE seq[k + 1]

\* ---------------------------------------------------------------- tokenizer
\* utils.Tokenizer is not part of src/: tokenize splits a text into its words
\* (maximal runs of non-blank characters) and encode maps every token of
\* tokenize to its index in the vocabulary.
pad_token_idx == 0
bos_token_idx == 1
eos_token_idx == 2
unk_token_idx == 3

Tokenizer ==
    [pad_token_idx |-> pad_token_idx, bos_token_idx |-> bos_token_idx,
     eos_token_idx |-> eos_token_idx]

RECURSIVE SplitWords(_, _, _, _)
SplitWords(sentence, i, word, tokens) ==
    LET flushed == IF word = <<>> THEN tokens ELSE Append(tokens, word)
    IN  IF i > Len(sentence) THEN flushed
        ELSE IF sentence[i] = " " THEN SplitWords(sentence, i + 1, <<>>, flushed)
        ELSE SplitWords(sentence, i + 1, Append(word, sentence[i]), tokens)

tokenize(sentence) == SplitWords(sentence, 1, <<>>, <<>>)

token_to_idx(token) ==
    IF token = <<"a">> THEN 4
    ELSE IF token = <<"a", "a">> THEN 5
    ELSE unk_token_idx

encode(sentence) ==
    LET tokens == tokenize(sentence)
    IN  [i \in 1..Len(tokens) |-> token_to_idx(tokens[i])]

\* --------------------------------------------------------- get_tokens_range
\* line 106: sent = sample['text'][char_start:char_end]
sent_of(sample, char_start, char_end) == Slice(sample["text"], char_start, char_end)

\* line 108: token_end = token_start + len(tokens_in_sent)
token_end_skipping_count(token_start, tokens_in_sent) == token_start + 1
token_end_of(token_start, tokens_in_sent) == token_start + Len(tokens_in_sent)

\* lines 109-110: ranges.append([token_start, token_end]); token_start = token_end
next_token_start_reset(token_start, token_end) == 0
next_token_start(token_start, token_end) == token_end

RECURSIVE RangesLoop(_, _, _, _)
RangesLoop(sample, i, token_start, ranges) ==
    IF i > Len(sample["sent_bounds"]) THEN ranges
    ELSE LET char_start == sample["sent_bounds"][i][1]
             char_end == sample["sent_bounds"][i][2]
             tokens_in_sent == tokenize(sent_of(sample, char_start, char_end))
             token_end == token_end_of(token_start, tokens_in_sent)
         IN  RangesLoop(sample, i + 1, next_token_start(token_start, token_end),
                        Append(ranges, <<token_start, token_end>>))

get_tokens_range(tokenizer, sample) ==
    IF "sent_bounds" \notin DOMAIN sample THEN Raise("KeyError")
    ELSE IF sample["sent_bounds"] # <<>> /\ "text" \notin DOMAIN sample
         THEN Raise("KeyError")
    ELSE Ok(RangesLoop(sample, 1, 0, <<>>))

\* --------------------------------------------------- process_seq_tag_samples
\* line 81: if not sample['sent_bounds']: continue
skips_nothing(sample) == FALSE
skips(sample) == sample["sent_bounds"] = <<>>

\* line 91: processed['sent_range'][sample['extractive_summary']] raises an
\* IndexError unless the index is one Python accepts for a list of that length.
index_in_range_nonnegative_only(sent_range, k) == 0 <= k /\ k < Len(sent_range)
index_in_range(sent_range, k) == ValidIndex(k, Len(sent_range))

\* lines 93-96: 1 if label_start <= i < label_end else 0, for i in range(n)
label_of_closed_end(label_start, label_end, n) ==
    [j \in 1..n |-> IF label_start <= j - 1 /\ j - 1 <= label_end THEN 1 ELSE 0]
label_of(label_start, label_end, n) ==
    [j \in 1..n |-> IF label_start <= j - 1 /\ j - 1 < label_end THEN 1 ELSE 0]

\* line 97 (and line 139): processeds.append(processed)
appended_in_front(processeds, processed) == <<processed>> \o processeds
appended(processeds, processed) == Append(processeds, processed)

\* lines 81-97, one pass of the loop body: the list of processed records after
\* this sample, or the exception it raises.
seq_tag_sample(tokenizer, sample, processeds) ==
    IF "sent_bounds" \notin DOMAIN sample THEN Raise("KeyError")
    ELSE IF skips(sample) THEN Ok(processeds)
    ELSE IF "id" \notin DOMAIN sample \/ "text" \notin DOMAIN sample
         THEN Raise("KeyError")
    ELSE LET processed ==
                 [id |-> sample["id"],
                  text |-> encode(sample["text"]),
                  sent_range |-> get_tokens_range(tokenizer, sample).val]
         IN  IF "extractive_summary" \notin DOMAIN sample
             THEN Ok(appended(processeds, processed))
             ELSE IF ~index_in_range(processed.sent_range, sample["extractive_summary"])
                  THEN Raise("IndexError")
             ELSE LET range == Subscript(processed.sent_range,
                                         sample["extractive_summary"])
                      label == label_of(range[1], range[2], Len(processed.text))
                  IN  Ok(appended(processeds, ("label" :> label) @@ processed))

RECURSIVE SeqTagLoop(_, _, _, _)
SeqTagLoop(tokenizer, samples, i, processeds) ==
    IF i > Len(samples) THEN Ok(processeds)
    ELSE LET r == seq_tag_sample(tokenizer, samples[i], processeds)
         IN  IF r.err # "none" THEN r
             ELSE SeqTagLoop(tokenizer, samples, i + 1, r.val)

process_seq_tag_samples(tokenizer, samples) == SeqTagLoop(tokenizer, samples, 1, <<>>)

\* --------------------------------------------------- process_seq2seq_samples
\* line 132: 'text': tokenizer.encode(sample['text']) + [eos_idx]
seq2seq_text(tokenizer, text) == encode(text) \o <<tokenizer.eos_token_idx>>

\* lines 135-138: [bos_idx] + tokenizer.encode(sample['summary']) + [eos_idx]
seq2seq_summary_without_bos(tokenizer, summary) ==
    encode(summary) \o <<tokenizer.eos_token_idx>>
seq2seq_summary(tokenizer, summary) ==
    <<tokenizer.bos_token_idx>> \o encode(summary) \o <<tokenizer.eos_token_idx>>

\* lines 130-139, one pass of the loop body.
seq2seq_sample(tokenizer, sample, processeds) ==
    IF "id" \notin DOMAIN sample \/ "text" \notin DOMAIN sample
    THEN Raise("KeyError")
    ELSE LET processed ==
                 [id |-> sample["id"],
                  text |-> seq2seq_text(tokenizer, sample["text"])]
         IN  IF "summary" \in DOMAIN sample
             THEN Ok(appended(processeds,
                        ("summary" :> seq2seq_summary(tokenizer, sample["summary"]))
                            @@ processed))
             ELSE Ok(appended(processeds, processed))

RECURSIVE Seq2SeqLoop(_, _, _, _)
Seq2SeqLoop(tokenizer, samples, i, processeds) ==
    IF i > Len(samples) THEN Ok(processeds)
    ELSE LET r == seq2seq_sample(tokenizer, samples[i], processeds)
         IN  IF r.err # "none" THEN r
             ELSE Seq2SeqLoop(tokenizer, samples, i + 1, r.val)

process_seq2seq_samples(tokenizer, samples) ==
    Seq2SeqLoop(tokenizer, samples, 1, <<>>)

\* -------------------------------------------------------- dataset containers
\* dataset.SeqTaggingDataset and dataset.Seq2SeqDataset are not part of src/:
\* a container keeps the processed records, each token sequence cut to the
\* prefix its cap allows, with the padding index and the caps it was built with.
Truncate(tokens, cap) == SubSeq(tokens, 1, Min(Len(tokens), cap))

SeqTaggingDataset(samples, padding, text_cap) ==
    [data |-> [i \in 1..Len(samples) |->
                  [samples[i] EXCEPT !.text = Truncate(@, text_cap)]],
     padding |-> padding,
     max_text_len |-> text_cap]

Seq2SeqDataset(samples, padding, text_cap, summary_cap) ==
    [data |-> [i \in 1..Len(samples) |->
                  IF "summary" \in DOMAIN samples[i]
                  THEN [samples[i] EXCEPT !.text = Truncate(@, text_cap),
                                          !.summary = Truncate(@, summary_cap)]
                  ELSE [samples[i] EXCEPT !.text = Truncate(@, text_cap)]],
     padding |-> padding,
     max_text_len |-> text_cap,
     max_summary_len |-> summary_cap]

\* lines 115-121: the container that pickle.dump writes to save_path
create_seq_tag_dataset(samples, save_path, padding) ==
    SeqTaggingDataset(samples, padding, max_text_len)

\* lines 145-152
create_seq2seq_dataset(samples, save_path, padding) ==
    Seq2SeqDataset(samples, padding, max_text_len, max_summary_len)

\* ------------------------------------------------------------------- inputs
Alphabet == {"a", " "}
Texts == UNION {[1..n -> Alphabet] : n \in 0..MaxLen}
CharSpans == {<<s, e>> : s \in 0..MaxLen, e \in 0..MaxLen}
SentBounds == UNION {[1..n -> {b \in CharSpans : b[1] <= b[2]}] : n \in 0..MaxBounds}

\* One record with any text and any sentence bounds, without a label index.
AlignmentSample(text, sent_bounds) ==
    [id |-> 1, text |-> text, sent_bounds |-> sent_bounds]

\* The label indices tried on a record of n sentences: every valid one, and
\* the nearest invalid one on either side.
LabelIndices(n) == -(n + 1)..n

\* What a record of a corpus may hold besides its id.
LabelledFields ==
    [text |-> <<"a", " ", "a">>, sent_bounds |-> <<<<0, 1>>, <<2, 3>>>>,
     extractive_summary |-> 1, summary |-> <<"a">>]
NoBoundsFields ==
    [text |-> <<"a", " ">>, sent_bounds |-> <<>>,
     extractive_summary |-> 0, summary |-> <<"a", "a">>]
InferenceFields == [text |-> <<"a">>, sent_bounds |-> <<<<0, 1>>>>]
BadIndexFields ==
    [text |-> <<"a">>, sent_bounds |-> <<<<0, 1>>>>,
     extractive_summary |-> 1, summary |-> <<"a">>]
NoBoundsKeyFields == [text |-> <<"a">>, summary |-> <<"a">>]
NoTextFields == [sent_bounds |-> <<>>, summary |-> <<"a">>]

SampleFields ==
    {LabelledFields, NoBoundsFields, InferenceFields, BadIndexFields,
     NoBoundsKeyFields, NoTextFields}

WithId(fields, id) == ("id" :> id) @@ fields

\* The ways to give n records pairwise different ids, in any order of the ids.
IdChoices(n) ==
    {f \in [1..n -> 1..MaxRecords] : \A i, j \in 1..n : f[i] = f[j] => i = j}

\* A line of a .jsonl file, as json.loads takes it: the record it holds, or the
\* exception of a line that does not parse.
JsonLines ==
    {Ok(f) : f \in {LabelledFields, NoBoundsFields, BadIndexFields, NoTextFields}}
    \cup {Raise("JSONDecodeError")}

\* lines 32, 47, 62: json.loads(line), of the i-th line of a file
json_loads(line, i) ==
    IF line.err = "none" THEN Ok(WithId(line.val, i)) ELSE line

JsonlFiles == UNION {[1..n -> JsonLines] : n \in 0..MaxLines}

\* -------------------------------------------------------------------- state
VARIABLES
    pc,     \* where main, or the caller of a builder, stands
    data,   \* main's `data`: the records of the split loaded last
    disk,   \* save_path -> <<>> while no file is there, else <<its container>>
    log,    \* the save_paths written, in the order of the writes
    jsonl,  \* split -> the lines main read from ./data/<split>.jsonl
    ret     \* what the builder called on its own returned

vars == <<pc, data, disk, log, jsonl, ret>>

Splits == <<"train", "valid", "test">>
Tasks == <<"seq_tag", "seq2seq">>
SavePath(task, split) == <<task, split>>
SavePaths == {SavePath(Tasks[t], Splits[s]) : t \in 1..2, s \in 1..3}

At(step, split) == [at |-> step, split |-> split]

\* What main does after the seq2seq artifact of a split is written.
AfterSplit_skips_test(split) ==
    IF split = "train" THEN At("load", "valid") ELSE At("done", split)
AfterSplit(split) ==
    IF split = "train" THEN At("load", "valid")
    ELSE IF split = "valid" THEN At("load", "test")
    ELSE At("done", split)

NoRet == [fn |-> "none", arg |-> 0, out |-> Raise("none")]

\* --------------------------------------------------------------------- main
Init ==
    /\ pc = At("load", "train")
    /\ data = <<>>
    /\ disk = [p \in SavePaths |-> <<>>]
    /\ log = <<>>
    /\ jsonl = [s \in {"train", "valid", "test"} |-> <<>>]
    /\ ret = NoRet

Parsed(lines) == [i \in 1..Len(lines) |-> json_loads(lines[i], i)]
AllParse(lines) == \A i \in 1..Len(lines) : Parsed(lines)[i].err = "none"

\* lines 31-32, 46-47, 61-62: every line of the split's file parses
Load(split) ==
    /\ pc = At("load", split)
    /\ \E lines \in JsonlFiles :
          /\ AllParse(lines)
          /\ jsonl' = [jsonl EXCEPT ![split] = lines]
          /\ data' = [i \in 1..Len(lines) |-> Parsed(lines)[i].val]
    /\ pc' = At("seq_tag", split)
    /\ UNCHANGED <<disk, log, ret>>

\* lines 31-32, 46-47, 61-62: json.loads raises and main ends
LoadFails(split) ==
    /\ pc = At("load", split)
    /\ \E lines \in JsonlFiles :
          /\ ~AllParse(lines)
          /\ jsonl' = [jsonl EXCEPT ![split] = lines]
    /\ pc' = At("failed", split)
    /\ UNCHANGED <<data, disk, log, ret>>

\* lines 34-38, 49-53, 64-68
SeqTag(split) ==
    /\ pc = At("seq_tag", split)
    /\ LET r == process_seq_tag_samples(Tokenizer, data)
           save_path == SavePath("seq_tag", split)
       IN  /\ r.err = "none"
           /\ disk' = [disk EXCEPT ![save_path] =
                          <<create_seq_tag_dataset(r.val, save_path,
                                                   Tokenizer.pad_token_idx)>>]
           /\ log' = Append(log, save_path)
    /\ pc' = At("seq2seq", split)
    /\ UNCHANGED <<data, jsonl, ret>>

\* lines 35, 50, 65: process_seq_tag_samples raises and main ends
SeqTagFails(split) ==
    /\ pc = At("seq_tag", split)
    /\ process_seq_tag_samples(Tokenizer, data).err # "none"
    /\ pc' = At("failed", split)
    /\ UNCHANGED <<data, disk, log, jsonl, ret>>

\* lines 40-44, 55-59, 70-74
Seq2Seq(split) ==
    /\ pc = At("seq2seq", split)
    /\ LET r == process_seq2seq_samples(Tokenizer, data)
           save_path == SavePath("seq2seq", split)
       IN  /\ r.err = "none"
           /\ disk' = [disk EXCEPT ![save_path] =
                          <<create_seq2seq_dataset(r.val, save_path,
                                                   Tokenizer.pad_token_idx)>>]
           /\ log' = Append(log, save_path)
    /\ pc' = AfterSplit(split)
    /\ UNCHANGED <<data, jsonl, ret>>

\* lines 41, 56, 71: process_seq2seq_samples raises and main ends
Seq2SeqFails(split) ==
    /\ pc = At("seq2seq", split)
    /\ process_seq2seq_samples(Tokenizer, data).err # "none"
    /\ pc' = At("failed", split)
    /\ UNCHANGED <<data, disk, log, jsonl, ret>>

Next ==
    \E s \in 1..3 :
        \/ Load(Splits[s])
        \/ LoadFails(Splits[s])
        \/ SeqTag(Splits[s])
        \/ SeqTagFails(Splits[s])
        \/ Seq2Seq(Splits[s])
        \/ Seq2SeqFails(Splits[s])

Spec == Init /\ [][Next]_vars

\* ------------------------------------------------- the builders on their own
\* The argument of the call: one record with any text, any sentence bounds and
\* any label index or none, or a list of records of a corpus.
CallInput(samples) ==
    \/ \E t \in Texts, b \in SentBounds :
          samples = <<AlignmentSample(t, b)>>
    \/ \E t \in Texts, b \in SentBounds :
          \E k \in LabelIndices(Len(b)) :
             samples = <<("extractive_summary" :> k) @@ AlignmentSample(t, b)>>
    \/ \E n \in 0..MaxRecords :
          \E fs \in [1..n -> SampleFields], ids \in IdChoices(n) :
             samples = [i \in 1..n |-> WithId(fs[i], ids[i])]

InitCall ==
    /\ pc = At("call", "none")
    /\ CallInput(data)
    /\ disk = [p \in SavePaths |-> <<>>]
    /\ log = <<>>
    /\ jsonl = [s \in {"train", "valid", "test"} |-> <<>>]
    /\ ret = NoRet

\* get_tokens_range(tokenizer, data[i])
CallGetTokensRange ==
    /\ pc = At("call", "none")
    /\ \E i \in 1..Len(data) :
          ret' = [fn |-> "get_tokens_range", arg |-> i,
                  out |-> get_tokens_range(Tokenizer, data[i])]
    /\ pc' = At("returned", "none")
    /\ UNCHANGED <<data, disk, log, jsonl>>

\* process_seq_tag_samples(tokenizer, data)
CallSeqTag ==
    /\ pc = At("call", "none")
    /\ ret' = [fn |-> "process_seq_tag_samples", arg |-> 0,
               out |-> process_seq_tag_samples(Tokenizer, data)]
    /\ pc' = At("returned", "none")
    /\ UNCHANGED <<data, disk, log, jsonl>>

\* process_seq2seq_samples(tokenizer, data)
CallSeq2Seq ==
    /\ pc = At("call", "none")
    /\ ret' = [fn |-> "process_seq2seq_samples", arg |-> 0,
               out |-> process_seq2seq_samples(Tokenizer, data)]
    /\ pc' = At("returned", "none")
    /\ UNCHANGED <<data, disk, log, jsonl>>

NextCall == CallGetTokensRange \/ CallSeqTag \/ CallSeq2Seq

SpecCall == InitCall /\ [][NextCall]_vars

\* ------------------------------------------------------ vocabulary of claims
RECURSIVE SumSeq(_)
SumSeq(seq) == IF seq = <<>> THEN 0 ELSE Head(seq) + SumSeq(Tail(seq))

IdsOf(records) == [i \in 1..Len(records) |-> records[i].id]

HasBounds(sample) == "sent_bounds" \in DOMAIN sample /\ sample["sent_bounds"] # <<>>

\* The input record with the given id (ids are pairwise different).
SampleOf(id) == data[CHOOSE i \in 1..Len(data) : data[i].id = id]

Returned(fn) == pc.at = "returned" /\ ret.fn = fn
ReturnedList(fn) == Returned(fn) /\ ret.out.err = "none"

\* The number of tokens of text[s:e] tokenized on its own.
TokensIn(text, span) == Len(tokenize(Slice(text, span[1], span[2])))

\* The spans cut the whole text into consecutive pieces.
Partitions(text, bounds) ==
    /\ bounds # <<>>
    /\ bounds[1][1] = 0
    /\ bounds[Len(bounds)][2] = Len(text)
    /\ \A i \in 1..Len(bounds) : bounds[i][1] <= bounds[i][2]
    /\ \A i \in 2..Len(bounds) : bounds[i][1] = bounds[i - 1][2]

RECURSIVE SpanTokens(_, _, _)
\* The tokens of the first n spans, each span tokenized on its own.
SpanTokens(text, bounds, n) ==
    IF n = 0 THEN <<>>
    ELSE SpanTokens(text, bounds, n - 1)
             \o tokenize(Slice(text, bounds[n][1], bounds[n][2]))

\* Tokenizing the whole text gives the tokens of the spans, one span after another.
Additive(text, bounds) == tokenize(text) = SpanTokens(text, bounds, Len(bounds))

\* ------------------------------------------------------------------- claims
\* C1: get_tokens_range never fails on a record holding a text and sentence
\* bounds, and returns one token span per character span, in order: the first
\* starts at 0, each later one starts where the one before ends, each is as
\* long as the number of tokens of text[char_start:char_end] tokenized on its
\* own (so an empty character span gives a span of length 0), and the starts
\* are non-negative and never decrease.
C1_TokenRanges ==
    Returned("get_tokens_range") =>
        LET sample == data[ret.arg]
            ranges == ret.out.val
        IN  ("sent_bounds" \in DOMAIN sample /\ "text" \in DOMAIN sample) =>
                /\ ret.out.err = "none"
                /\ Len(ranges) = Len(sample.sent_bounds)
                /\ \A i \in 1..Len(ranges) :
                      /\ ranges[i][1] = IF i = 1 THEN 0 ELSE ranges[i - 1][2]
                      /\ ranges[i][2] - ranges[i][1]
                             = TokensIn(sample.text, sample.sent_bounds[i])
                      /\ sample.sent_bounds[i][1] = sample.sent_bounds[i][2]
                             => ranges[i][2] = ranges[i][1]
                      /\ ranges[i][1] >= 0
                      /\ i > 1 => ranges[i - 1][1] <= ranges[i][1]

\* get_tokens_range has returned two spans, the second one empty, after a
\* first span of one token.
C1_Witness ==
    /\ ReturnedList("get_tokens_range")
    /\ ret.out.val = <<<<0, 1>>, <<1, 1>>>>
    /\ data[ret.arg].sent_bounds[2][1] = data[ret.arg].sent_bounds[2][2]

\* The labelled records process_seq_tag_samples returned satisfy P(label,
\* text tokens, start and end of the labelled sentence's span, input record).
LabelsSatisfy(P(_, _, _, _, _)) ==
    ReturnedList("process_seq_tag_samples") =>
        \A i \in 1..Len(ret.out.val) :
            LET processed == ret.out.val[i]
                sample == SampleOf(processed.id)
            IN  "label" \in DOMAIN processed =>
                    LET range == Subscript(processed.sent_range,
                                           sample.extractive_summary)
                    IN  P(processed.label, processed.text, range[1], range[2], sample)

C2_Amended(label, text, start, end, sample) ==
    /\ Len(label) = Len(text)
    /\ SumSeq(label) = Min(end, Len(text)) - Min(start, Len(text))
    /\ end <= Len(text) => SumSeq(label) = end - start

\* C2 (as amended): a label is as long as the record's encoded text, and its
\* number of 1s is the number of positions of the labelled sentence's token
\* span that lie inside the text tokens, min(end, len) - min(start, len); it
\* is end - start whenever the span ends inside the text tokens.
C2_LabelCount == LabelsSatisfy(C2_Amended)

C2_Stated(label, text, start, end, sample) ==
    sample.extractive_summary >= 0
        => /\ Len(label) = Len(text)
           /\ SumSeq(label) = end - start

\* C2 (as stated): a label is as long as the record's encoded text and its
\* number of 1s is end - start of the labelled sentence's token span, for
\* every record and every index in 0..n-1.
C2_Original == LabelsSatisfy(C2_Stated)

\* A label of two tokens, the second one of the labelled sentence, for
\* the index 1 of two sentences.
C2_Witness ==
    /\ ReturnedList("process_seq_tag_samples")
    /\ Len(ret.out.val) = 1
    /\ "label" \in DOMAIN ret.out.val[1]
    /\ data[1].extractive_summary = 1
    /\ data[1].sent_bounds = <<<<0, 1>>, <<2, 3>>>>
    /\ ret.out.val[1].label = <<0, 1>>
    /\ ret.out.val[1].sent_range = <<<<0, 1>>, <<1, 2>>>>

\* C3: for input records of pairwise different ids, when the builders return,
\* the tagging builder's records are those of the input records with
\* non-empty sent_bounds (a record whose sent_bounds is empty is not among
\* them), and the seq2seq builder returns one record per input record, the
\* records with empty sent_bounds among them.
C3_DropPolicy ==
    /\ ReturnedList("process_seq_tag_samples") =>
          /\ {ret.out.val[i].id : i \in 1..Len(ret.out.val)}
                 = {data[i].id : i \in {j \in 1..Len(data) : HasBounds(data[j])}}
          /\ \A i \in 1..Len(data) :
                data[i].sent_bounds = <<>> =>
                    \A j \in 1..Len(ret.out.val) : ret.out.val[j].id # data[i].id
    /\ ReturnedList("process_seq2seq_samples") =>
          /\ Len(ret.out.val) = Len(data)
          /\ \A i \in 1..Len(data) :
                \E j \in 1..Len(ret.out.val) : ret.out.val[j].id = data[i].id

\* The tagging builder has dropped one of two records and kept the other.
C3_Witness ==
    /\ ReturnedList("process_seq_tag_samples")
    /\ Len(data) = 2
    /\ \E i \in 1..2 : data[i].sent_bounds = <<>>
    /\ Len(ret.out.val) = 1

\* C4: every record of process_seq2seq_samples has the text tokens
\* encode(text) followed by one EOS; with a summary its summary tokens are
\* BOS, encode(summary), EOS; without one it has no summary field.
C4_SentinelFraming ==
    ReturnedList("process_seq2seq_samples") =>
        \A i \in 1..Len(ret.out.val) :
            LET processed == ret.out.val[i]
                sample == data[i]
                n == Len(processed.text)
            IN  /\ n = Len(encode(sample.text)) + 1
                /\ processed.text[n] = eos_token_idx
                /\ SubSeq(processed.text, 1, n - 1) = encode(sample.text)
                /\ "summary" \in DOMAIN sample =>
                      /\ "summary" \in DOMAIN processed
                      /\ LET m == Len(processed.summary)
                         IN  /\ m = Len(encode(sample.summary)) + 2
                             /\ processed.summary[1] = bos_token_idx
                             /\ processed.summary[m] = eos_token_idx
                             /\ SubSeq(processed.summary, 2, m - 1)
                                    = encode(sample.summary)
                /\ "summary" \notin DOMAIN sample => "summary" \notin DOMAIN processed

\* The seq2seq builder has returned a record with a summary and one without.
C4_Witness ==
    /\ ReturnedList("process_seq2seq_samples")
    /\ \E i, j \in 1..Len(ret.out.val) :
          /\ "summary" \in DOMAIN ret.out.val[i]
          /\ Len(ret.out.val[i].summary) >= 3
          /\ "summary" \notin DOMAIN ret.out.val[j]

\* The records of the input that hold n >= 1 sentence bounds and a label index
\* k with Invalid(k, n).
BadlyIndexed(Invalid(_, _)) ==
    {i \in 1..Len(data) :
        /\ HasBounds(data[i])
        /\ "extractive_summary" \in DOMAIN data[i]
        /\ Invalid(data[i].extractive_summary, Len(data[i].sent_bounds))}

OutsideZeroToN(k, n) == k \notin 0..(n - 1)
OutsidePythonRange(k, n) == k < -n \/ k >= n

\* C5 (as stated): with a record of n >= 1 sentence bounds and a label index
\* outside 0..n-1, negative ones included, process_seq_tag_samples fails.
C5_Original ==
    (Returned("process_seq_tag_samples") /\ BadlyIndexed(OutsideZeroToN) # {})
        => ret.out.err # "none"

\* C5 (as amended): with a record of n >= 1 sentence bounds and a label index
\* k < -n or k >= n, process_seq_tag_samples fails and returns no list, so no
\* label; an index k in -n..-1 does not fail: it labels sentence n + k.
C5_InvalidIndexFails ==
    Returned("process_seq_tag_samples") =>
        /\ BadlyIndexed(OutsidePythonRange) # {}
              => ret.out.err # "none" /\ ret.out.val = <<>>
        /\ \A k \in -MaxBounds..-1 :
              (/\ Len(data) = 1
               /\ {"id", "text", "extractive_summary"} \subseteq DOMAIN data[1]
               /\ HasBounds(data[1])
               /\ data[1].extractive_summary = k
               /\ -Len(data[1].sent_bounds) <= k)
                  => /\ ret.out.err = "none"
                     /\ LET processed == ret.out.val[1]
                            range == processed.sent_range[Len(processed.sent_range) + k + 1]
                        IN  \A j \in 1..Len(processed.label) :
                               processed.label[j] = 1
                                   <=> (range[1] <= j - 1 /\ j - 1 < range[2])

\* The builder has raised IndexError on the index n of a record of n sentences.
C5_Witness ==
    /\ Returned("process_seq_tag_samples")
    /\ Len(data) = 1
    /\ BadlyIndexed(OutsidePythonRange) = {1}
    /\ data[1].extractive_summary = Len(data[1].sent_bounds)
    /\ ret.out.err = "IndexError"

\* C6 (as stated): a record whose sent_bounds is absent or empty is no error:
\* on a list of such records process_seq_tag_samples returns the empty list,
\* and process_seq2seq_samples returns one record for each of them that holds
\* an id and a text.
C6_Original ==
    /\ (Returned("process_seq_tag_samples")
            /\ \A i \in 1..Len(data) : ~HasBounds(data[i]))
          => ret.out = Ok(<<>>)
    /\ (Returned("process_seq2seq_samples")
            /\ \A i \in 1..Len(data) : {"id", "text"} \subseteq DOMAIN data[i])
          => ret.out.err = "none" /\ Len(ret.out.val) = Len(data)

\* The record get_tokens_range was called on, when its spans cut its whole
\* text into consecutive pieces, satisfies P(end of the last token span,
\* text, spans).
PartitionedSatisfies(P(_, _, _)) ==
    ReturnedList("get_tokens_range") =>
        LET sample == data[ret.arg]
        IN  ("text" \in DOMAIN sample /\ Partitions(sample.text, sample.sent_bounds)) =>
                P(ret.out.val[Len(ret.out.val)][2], sample.text, sample.sent_bounds)

C7_Stated(last_end, text, bounds) == last_end = Len(encode(text))

\* C7 (as stated): when the character spans exactly partition the text, the
\* last token span ends at the number of tokens of encode(text).
C7_Original == PartitionedSatisfies(C7_Stated)

C7_Amended(last_end, text, bounds) ==
    /\ last_end = Len(SpanTokens(text, bounds, Len(bounds)))
    /\ Additive(text, bounds) => last_end = Len(encode(text))

\* C7 (as amended): when the character spans exactly partition the text, the
\* last token span ends at the number of tokens of the spans tokenized one by
\* one; that is the number of tokens of encode(text) whenever tokenizing the
\* whole text gives the tokens of the spans one after another (encode giving
\* one index per token of tokenize).
C7_Coverage == PartitionedSatisfies(C7_Amended)

\* Two spans that partition a text of two words, cut between the words.
C7_Witness ==
    /\ ReturnedList("get_tokens_range")
    /\ Len(data[ret.arg].sent_bounds) = 2
    /\ Partitions(data[ret.arg].text, data[ret.arg].sent_bounds)
    /\ Additive(data[ret.arg].text, data[ret.arg].sent_bounds)
    /\ ret.out.val = <<<<0, 1>>, <<1, 2>>>>
    /\ Len(encode(data[ret.arg].text)) = 2

SplitIndex(split) == CHOOSE s \in 1..3 : Splits[s] = split

\* C8 (as stated): when main fails in a split, neither artifact of that split
\* nor any artifact of a later split is on disk.
C8_Original ==
    pc.at = "failed" =>
        \A t \in 1..2, s \in SplitIndex(pc.split)..3 :
            disk[SavePath(Tasks[t], Splits[s])] = <<>>

\* The save_paths in the order main writes them.
WriteOrder ==
    [i \in 1..6 |-> SavePath(Tasks[((i - 1) % 2) + 1], Splits[((i - 1) \div 2) + 1])]

Records(split) == [i \in 1..Len(jsonl[split]) |-> Parsed(jsonl[split])[i].val]

\* The container main is to write to save_path, from the lines of its split.
Artifact(save_path) ==
    IF save_path[1] = "seq_tag"
    THEN SeqTaggingDataset(
             process_seq_tag_samples(Tokenizer, Records(save_path[2])).val,
             pad_token_idx, max_text_len)
    ELSE Seq2SeqDataset(
             process_seq2seq_samples(Tokenizer, Records(save_path[2])).val,
             pad_token_idx, max_text_len, max_summary_len)

\* C9: main writes the artifacts one by one in the order train, valid, test,
\* tagging before seq2seq, never one twice; an artifact on disk is the one
\* built from all the records of its own split; while nothing has failed main
\* can go on, and when it is done the six artifacts are on disk.
C9_SixArtifacts ==
    /\ Len(log) <= 6
    /\ log = SubSeq(WriteOrder, 1, Len(log))
    /\ Cardinality({log[i] : i \in 1..Len(log)}) = Len(log)
    /\ \A p \in SavePaths : disk[p] # <<>> <=> \E i \in 1..Len(log) : log[i] = p
    /\ \A i \in 1..Len(log) : disk[log[i]] = <<Artifact(log[i])>>
    /\ pc.at \notin {"done", "failed"} => ENABLED Next
    /\ pc.at = "done" =>
          /\ Len(log) = 6
          /\ Cardinality({p \in SavePaths : disk[p] # <<>>}) = 6

\* main is done and the six artifacts hold records: three splits of two
\* records each, one of them dropped from each tagging artifact.
C9_Witness ==
    /\ pc.at = "done"
    /\ Len(log) = 6
    /\ \A s \in 1..3 :
          /\ Len(disk[SavePath("seq_tag", Splits[s])][1].data) = 1
          /\ Len(disk[SavePath("seq2seq", Splits[s])][1].data) = 2

====
